---- MODULE Spec2Model ----
(***************************************************************************)
(* A model of the YouTube transcript service (src/main.py): one            *)
(* fetch_transcript request, from validation of the video id through the   *)
(* retry rounds over the two acquisition methods (try_pytubefix, then      *)
(* try_transcript_api) to the TranscriptResponse it returns.               *)
(*                                                                         *)
(* Python values: None is the empty tuple, an Optional field holding x is  *)
(* the one-element tuple <<x>>, a dict is a record with exactly its keys,  *)
(* a str is a string.  The two libraries and the random generator are the  *)
(* environment: every call draws its outcome nondeterministically.         *)
(***************************************************************************)
EXTENDS Integers, Sequences, FiniteSets, TLC

\* ------------------------------------------------------------------ bounds

\* The largest number of tracks (captions) a video advertises.
MaxTracks == 2

\* ------------------------------------------------------- program constants

\* fetch_transcript(video_id, lang, max_retries: int = 3)
max_retries == 3

\* random_delay(min_ms: int = 100, max_ms: int = 500)
min_ms == 100
max_ms == 500

\* if not video_id or len(video_id) != 11
VideoIdLength == 11

\* delay = 2 ** attempt (seconds)
BackoffBase == 2

\* time.sleep takes seconds; the model counts milliseconds
MsPerSecond == 1000

\* ------------------------------------------------------------ Python values

None == <<>>

Some(x) == <<x>>

\* " ".join(parts)
RECURSIVE Join(_, _)
Join(sep, parts) ==
    IF Len(parts) = 0 THEN ""
    ELSE IF Len(parts) = 1 THEN parts[1]
    ELSE parts[1] \o sep \o Join(sep, Tail(parts))

Whitespace == {" ", "\t"}

\* str.strip()
RECURSIVE Strip(_)
Strip(s) ==
    IF Len(s) = 0 THEN s
    ELSE IF SubSeq(s, 1, 1) \in Whitespace THEN Strip(SubSeq(s, 2, Len(s)))
    ELSE IF SubSeq(s, Len(s), Len(s)) \in Whitespace THEN Strip(SubSeq(s, 1, Len(s) - 1))
    ELSE s

Digits == {"0", "1", "2", "3", "4", "5", "6", "7", "8", "9"}

\* str.isdigit()
IsDigit(s) == Len(s) > 0 /\ \A i \in 1..Len(s) : SubSeq(s, i, i) \in Digits

\* sub in s
Contains(s, sub) ==
    \E i \in 1..(Len(s) - Len(sub) + 1) : SubSeq(s, i, i + Len(sub) - 1) = sub

\* the sequences over S of length at most n without repetition
SeqsNoDup(S, n) ==
    UNION {{s \in [1..k -> S] : \A i, j \in 1..k : i # j => s[i] # s[j]} : k \in 0..n}

\* ------------------------------------------------------------- environment

\* language codes a video's tracks carry, and languages a caller asks for
Codes == {"en", "fr", "de"}
Langs == {"en", "fr", "de"}

\* what a library call does: it returns, or it raises one of the exceptions
\* the service tells apart (anything else is "Exception")
Classified == {"TranscriptsDisabled", "NoTranscriptFound", "VideoUnavailable"}
Outcomes == {"ok", "Exception"} \cup Classified

\* str(e) of a caught exception
ExcText == "<exception text>"

\* caption.generate_srt_captions().splitlines(): no cue, a cue with text, a
\* cue whose text is blank, a cue whose text is a number
SrtSamples ==
    { <<>>,
      <<"1", "00:00:00,000 --> 00:00:02,000", " hello world ", "">>,
      <<"1", "00:00:00,000 --> 00:00:02,000", "  ", "">>,
      <<"1", "00:00:00,000 --> 00:00:02,000", "2024", "">> }

\* One call of try_pytubefix as the library answers it: YouTube(url) and
\* yt.title return or raise, yt.captions holds captions (keyed by code, in
\* order), generate_srt_captions() of the chosen one returns srt or raises.
PyEnvs ==
    {e \in [ctor : {"ok", "Exception"}, title : {"ok", "Exception"},
            captions : SeqsNoDup(Codes, MaxTracks),
            generate : {"ok", "Exception"}, srt : SrtSamples] :
        /\ e.ctor # "ok" => e.title = "ok" /\ e.captions = <<>>
        /\ e.title # "ok" => e.captions = <<>>
        /\ e.captions = <<>> => e.generate = "ok"
        /\ e.generate # "ok" \/ e.captions = <<>> => e.srt = <<>>}

\* ---------------------------------------------------- Method 2: pytubefix

\* "lang in available_langs", with available_langs = [cap.code for cap in captions]
InLangs(code, available_langs) ==
    \E i \in 1..Len(available_langs) : available_langs[i] = code

\* requested lang -> en -> first available; the code of the caption chosen
SelectCaption(captions, lang) ==
    IF InLangs(lang, captions) THEN lang
    ELSE IF InLangs("en", captions) THEN "en"
    ELSE captions[1]

\* a line of the srt is skipped: empty, a number, or a timestamp line
SkipLine(line) == Len(line) = 0 \/ IsDigit(line) \/ Contains(line, "-->")

KeepLine(line) == ~SkipLine(Strip(line))

\* the stripped lines of the srt that are kept, in order
RECURSIVE ParseSrt(_)
ParseSrt(srt) ==
    IF Len(srt) = 0 THEN <<>>
    ELSE IF KeepLine(srt[1]) THEN <<Strip(srt[1])>> \o ParseSrt(Tail(srt))
    ELSE ParseSrt(Tail(srt))

\* the dict try_pytubefix returns once a caption was chosen
PytubefixCaptionResult(code, env) ==
    IF env.generate # "ok"
    THEN [error |-> "pytubefix_error", message |-> ExcText]
    ELSE LET text == Join(" ", ParseSrt(env.srt)) IN
         IF text = ""
         THEN [error |-> "empty_captions", message |-> "Captions are empty"]
         ELSE [success |-> TRUE, text |-> text, language |-> code,
               source |-> "pytubefix", is_auto_generated |-> TRUE]

\* try_pytubefix(video_id, lang) with the module flag PYTUBEFIX_AVAILABLE
try_pytubefix(video_id, lang, available, env) ==
    IF ~available THEN None
    ELSE IF env.ctor # "ok"
    THEN [error |-> "pytubefix_error", message |-> ExcText]
    ELSE IF env.title # "ok"
    THEN [error |-> "video_unavailable", message |-> ExcText]
    ELSE IF Len(env.captions) = 0
    THEN [error |-> "no_captions", message |-> "No captions found"]
    ELSE PytubefixCaptionResult(SelectCaption(env.captions, lang), env)

\* ----------------------------------------- Method 1: youtube-transcript-api

\* transcript.fetch() / api.get_transcript(): the "text" of each entry
DataSamples == { <<>>, <<"">>, <<"hello", "world">> }

\* A TranscriptList: at most one manually created and one generated
\* transcript per language code; iterating it yields the manual ones first.
TrackLists ==
    {[manual |-> m, generated |-> g] :
        <<m, g>> \in {p \in SeqsNoDup(Codes, MaxTracks) \X SeqsNoDup(Codes, MaxTracks) :
                         Len(p[1]) + Len(p[2]) <= MaxTracks}}

NoTracks == [manual |-> <<>>, generated |-> <<>>]

\* "for t in transcript_list"
Transcripts(transcript_list) ==
    [i \in 1..Len(transcript_list.manual) |->
        [language_code |-> transcript_list.manual[i], is_generated |-> FALSE]]
    \o [i \in 1..Len(transcript_list.generated) |->
        [language_code |-> transcript_list.generated[i], is_generated |-> TRUE]]

\* find_transcript looking at the generated transcripts first
find_transcript_generated_first(transcript_list, code) ==
    IF InLangs(code, transcript_list.generated)
    THEN [language_code |-> code, is_generated |-> TRUE]
    ELSE IF InLangs(code, transcript_list.manual)
    THEN [language_code |-> code, is_generated |-> FALSE]
    ELSE None

\* transcript_list.find_transcript([code]): the manual transcript of that
\* code, else the generated one, else NoTranscriptFound (None here)
find_transcript(transcript_list, code) ==
    IF InLangs(code, transcript_list.manual)
    THEN [language_code |-> code, is_generated |-> FALSE]
    ELSE IF InLangs(code, transcript_list.generated)
    THEN [language_code |-> code, is_generated |-> TRUE]
    ELSE None

\* the selection without its last step: requested lang -> en -> nothing
SelectTranscriptNoFallback(transcript_list, lang) ==
    IF find_transcript(transcript_list, lang) # None
    THEN find_transcript(transcript_list, lang)
    ELSE IF find_transcript(transcript_list, "en") # None
    THEN find_transcript(transcript_list, "en")
    ELSE None

\* requested lang -> en -> any available; None when there is no transcript
SelectTranscript(transcript_list, lang) ==
    IF find_transcript(transcript_list, lang) # None
    THEN find_transcript(transcript_list, lang)
    ELSE IF find_transcript(transcript_list, "en") # None
    THEN find_transcript(transcript_list, "en")
    ELSE IF Len(Transcripts(transcript_list)) > 0
    THEN Transcripts(transcript_list)[1]
    ELSE None

\* One call of try_transcript_api as the library answers it.
ApiEnvs ==
    {e \in [list : Outcomes, tracks : TrackLists, fetch : Outcomes,
            get : {"ok", "Exception"}, data : DataSamples] :
        /\ e.list # "ok" => e.tracks = NoTracks
        /\ e.tracks = NoTracks => e.fetch = "ok"
        /\ e.list \in Classified \/ e.fetch \in Classified => e.get = "Exception"
        /\ e.tracks # NoTracks /\ e.fetch = "ok" => e.get = "Exception"
        /\ e.get # "ok" /\ (e.tracks = NoTracks \/ e.fetch # "ok") => e.data = <<>>}

\* the except clauses of Method 1a with every exception falling through
Method1aExceptFallsThrough(exc) == [returns |-> FALSE]

\* the except clauses of Method 1a: a classified exception is returned as an
\* error dict, any other one is logged and Method 1b is tried
Method1aExcept(exc) ==
    CASE exc = "TranscriptsDisabled" ->
           [returns |-> TRUE,
            value |-> [error |-> "transcripts_disabled", message |-> ExcText]]
      [] exc = "NoTranscriptFound" ->
           [returns |-> TRUE,
            value |-> [error |-> "no_transcript", message |-> ExcText]]
      [] exc = "VideoUnavailable" ->
           [returns |-> TRUE,
            value |-> [error |-> "video_unavailable", message |-> ExcText]]
      [] OTHER -> [returns |-> FALSE]

\* "if transcript:" and what follows it
Method1aFetch(transcript, env) ==
    IF transcript = None THEN [returns |-> FALSE]
    ELSE IF env.fetch # "ok" THEN Method1aExcept(env.fetch)
    ELSE [returns |-> TRUE,
          value |-> [success |-> TRUE, text |-> Join(" ", env.data),
                     language |-> transcript.language_code,
                     source |-> "youtube-transcript-api",
                     is_auto_generated |-> transcript.is_generated]]

\* Method 1a: list_transcripts
Method1a(lang, env) ==
    IF env.list # "ok" THEN Method1aExcept(env.list)
    ELSE Method1aFetch(SelectTranscript(env.tracks, lang), env)

\* Method 1b: get_transcript (fallback)
Method1b(lang, env) ==
    IF env.get # "ok" THEN None
    ELSE [success |-> TRUE, text |-> Join(" ", env.data), language |-> lang,
          source |-> "youtube-transcript-api", is_auto_generated |-> TRUE]

\* try_transcript_api(video_id, lang); has_list and has_get are
\* hasattr(api, "list_transcripts") and hasattr(api, "get_transcript")
try_transcript_api(video_id, lang, has_list, has_get, env) ==
    LET first == IF has_list THEN Method1a(lang, env) ELSE [returns |-> FALSE] IN
    IF first.returns THEN first.value
    ELSE IF has_get THEN Method1b(lang, env)
    ELSE None

\* ------------------------------------------------------------------- Models

\* dict.get(key) as an Optional
Get(d, key) == IF key \in DOMAIN d THEN Some(d[key]) ELSE None

\* TranscriptResponse with the source read from a key no result has
TranscriptResponseSourceKeyTypo(d) ==
    [success |-> d.success,
     text |-> Get(d, "text"),
     language |-> Get(d, "language"),
     source |-> Get(d, "sourse"),
     is_auto_generated |-> Get(d, "is_auto_generated"),
     error |-> Get(d, "error"),
     error_type |-> Get(d, "error_type")]

\* TranscriptResponse(**result): success is required, every other field
\* defaults to None
TranscriptResponse(d) ==
    [success |-> d.success,
     text |-> Get(d, "text"),
     language |-> Get(d, "language"),
     source |-> Get(d, "source"),
     is_auto_generated |-> Get(d, "is_auto_generated"),
     error |-> Get(d, "error"),
     error_type |-> Get(d, "error_type")]

\* -------------------------------------------------------------- Core logic

\* the requests the model sends: empty, too short, well formed, 11
\* characters with one outside [A-Za-z0-9_-], too long
VideoIds == {"", "dQw4w9WgXc", "dQw4w9WgXcQ", "dQw4w9WgXc!", "dQw4w9WgXcQQ"}

\* random.randint(min_ms, max_ms): the two ends of the range
JitterSamples == {min_ms, max_ms}

\* the chain of methods, in the order fetch_transcript tries them
Providers == <<"pytubefix", "youtube-transcript-api">>

VARIABLES
    video_id,               \* fetch_transcript's arguments
    lang,
    PYTUBEFIX_AVAILABLE,    \* the module flag set at import
    has_list_transcripts,   \* hasattr(api, "list_transcripts")
    has_get_transcript,     \* hasattr(api, "get_transcript")
    pc,                     \* where fetch_transcript is
    attempt,                \* the loop variable of "for attempt in range(max_retries)"
    invoked,                \* the provider calls made, in order, with their arguments
    returned,               \* per provider, what its latest call returned (None: not called)
    sleeps,                 \* the time.sleep calls made, in order
    response,               \* what fetch_transcript returned; None while it runs
    probe,                  \* one provider call looked at on its own: what the
                            \* library answered and what the call did (else None)
    world,                  \* what the libraries answer, fixed ahead per video and
                            \* call number; None: they answer anything, any time
    other                   \* the locals of a second request; None: there is none

vars == <<video_id, lang, PYTUBEFIX_AVAILABLE, has_list_transcripts,
          has_get_transcript, pc, attempt, invoked, returned, sleeps, response,
          probe, world, other>>

\* what belongs to no single request
aside == <<probe, world, other>>

inputs == <<video_id, lang, PYTUBEFIX_AVAILABLE, has_list_transcripts,
            has_get_transcript>>

Init ==
    /\ video_id \in VideoIds
    /\ lang \in Langs
    /\ PYTUBEFIX_AVAILABLE \in BOOLEAN
    /\ has_list_transcripts \in BOOLEAN
    /\ has_get_transcript \in BOOLEAN
    /\ pc = "validate"
    /\ attempt = 0
    /\ invoked = <<>>
    /\ returned = [p \in {Providers[1], Providers[2]} |-> None]
    /\ sleeps = <<>>
    /\ response = None
    /\ probe = None
    /\ world = None
    /\ other = None

\* the validation with only "not video_id"
InvalidVideoIdEmptyOnly(id) == Len(id) = 0

\* the validation with "len(video_id) < 11"
InvalidVideoIdTooShortOnly(id) == Len(id) = 0 \/ Len(id) < VideoIdLength

\* "not video_id or len(video_id) != 11"
InvalidVideoId(id) == Len(id) = 0 \/ Len(id) # VideoIdLength

\* the ids fetch_transcript lets through to the providers
AcceptedIds == {id \in VideoIds : ~InvalidVideoId(id)}

\* the invalid-id response without its error_type
InvalidResponseNoErrorType ==
    TranscriptResponse(
        [success |-> FALSE,
         error |-> "Invalid video ID format (must be 11 characters)"])

InvalidResponse ==
    TranscriptResponse(
        [success |-> FALSE,
         error |-> "Invalid video ID format (must be 11 characters)",
         error_type |-> "invalid_video_id"])

\* the exhausted-chain response reporting the last provider's kind of error
AllFailedResponseProviderKind(id) ==
    TranscriptResponse(
        [success |-> FALSE,
         error |-> "Unable to fetch transcript for video '" \o id \o "'.",
         error_type |-> "video_unavailable"])

AllFailedResponse(id) ==
    TranscriptResponse(
        [success |-> FALSE,
         error |-> "Unable to fetch transcript for video '" \o id \o "'. "
                   \o "This may be due to: (1) Captions actually disabled, "
                   \o "(2) YouTube rate limiting/blocking the server, "
                   \o "(3) Geographic restrictions. "
                   \o "Try again in a few minutes or check the video directly.",
         error_type |-> "all_methods_failed"])

\* the success test reading a key no result has
SucceededKeyTypo(result) ==
    result # None /\ Get(result, "sucess") = Some(TRUE)

\* "result and result.get("success")"
Succeeded(result) ==
    result # None /\ Get(result, "success") = Some(TRUE)

\* the backoff without the exponent: the same delay before every retry
BackoffConstant(n) ==
    IF n > 0 THEN <<[sleep |-> "backoff", ms |-> BackoffBase * MsPerSecond]>>
    ELSE <<>>

\* "if attempt > 0: delay = 2 ** attempt; time.sleep(delay)", in milliseconds
Backoff(n) ==
    IF n > 0 THEN <<[sleep |-> "backoff", ms |-> (BackoffBase ^ n) * MsPerSecond]>>
    ELSE <<>>

\* random_delay(): time.sleep(random.randint(min_ms, max_ms) / 1000)
RandomDelay(ms) == <<[sleep |-> "random_delay", ms |-> ms]>>

\* the loop running one round too many
MoreAttemptsOneTooMany(n) == n < max_retries + 1

\* the loop running one round too few
MoreAttemptsOneTooFew(n) == n < max_retries - 1

\* "for attempt in range(max_retries)" has another round to run
MoreAttempts(n) == n < max_retries

\* a provider call as the log records it: try_<provider>(video_id, lang)
Invocation(provider, id, language) ==
    [provider |-> provider, video_id |-> id, lang |-> language]

\* what the pytubefix library can answer to the call of round n for video id
PyAnswers(id, n) == IF world = None THEN PyEnvs ELSE {world[id][n + 1].py}

\* what youtube-transcript-api can answer to the call of round n for video id
ApiAnswers(id, n) == IF world = None THEN ApiEnvs ELSE {world[id][n + 1].api}

\* the validation of video_id at the top of fetch_transcript
Validate ==
    /\ pc = "validate"
    /\ IF InvalidVideoId(video_id)
       THEN /\ response' = InvalidResponse
            /\ pc' = "done"
       ELSE /\ response' = response
            /\ pc' = "attempt"
    /\ UNCHANGED <<inputs, attempt, invoked, returned, sleeps, aside>>

\* the top of a round: the backoff of a retry, then random_delay()
BeginAttempt ==
    /\ pc = "attempt"
    /\ MoreAttempts(attempt)
    /\ \E ms \in JitterSamples :
          sleeps' = sleeps \o Backoff(attempt) \o RandomDelay(ms)
    /\ pc' = "try_pytubefix"
    /\ UNCHANGED <<inputs, attempt, invoked, returned, response, aside>>

\* Strategy 1: result = try_pytubefix(video_id, lang)
CallPytubefix ==
    /\ pc = "try_pytubefix"
    /\ \E env \in PyAnswers(video_id, attempt) :
          LET result == try_pytubefix(video_id, lang, PYTUBEFIX_AVAILABLE, env) IN
          /\ invoked' = Append(invoked, Invocation(Providers[1], video_id, lang))
          /\ returned' = [returned EXCEPT ![Providers[1]] = Some(result)]
          /\ IF Succeeded(result)
             THEN /\ response' = TranscriptResponse(result)
                  /\ pc' = "done"
             ELSE /\ response' = response
                  /\ pc' = "try_transcript_api"
    /\ UNCHANGED <<inputs, attempt, sleeps, aside>>

\* Strategy 2: result = try_transcript_api(video_id, lang)
CallTranscriptApi ==
    /\ pc = "try_transcript_api"
    /\ \E env \in ApiAnswers(video_id, attempt) :
          LET result == try_transcript_api(video_id, lang, has_list_transcripts,
                                           has_get_transcript, env) IN
          /\ invoked' = Append(invoked, Invocation(Providers[2], video_id, lang))
          /\ returned' = [returned EXCEPT ![Providers[2]] = Some(result)]
          /\ IF Succeeded(result)
             THEN /\ response' = TranscriptResponse(result)
                  /\ pc' = "done"
                  /\ attempt' = attempt
             ELSE /\ response' = response
                  /\ pc' = "attempt"
                  /\ attempt' = attempt + 1
    /\ UNCHANGED <<inputs, sleeps, aside>>

\* the loop ran out: "All attempts failed"
AllFailed ==
    /\ pc = "attempt"
    /\ ~MoreAttempts(attempt)
    /\ response' = AllFailedResponse(video_id)
    /\ pc' = "done"
    /\ UNCHANGED <<inputs, attempt, invoked, returned, sleeps, aside>>

Next ==
    \/ Validate
    \/ BeginAttempt
    \/ CallPytubefix
    \/ CallTranscriptApi
    \/ AllFailed

Spec == Init /\ [][Next]_vars

\* fetch_transcript runs on a worker thread of its own: a request that can
\* take a step eventually takes it
FairSpec == Spec /\ WF_vars(Next)

\* ------------------------------------------- a library call that hangs

\* try_pytubefix is called and a request it makes of YouTube never answers:
\* the call is made without a timeout and does not return
HangPytubefix ==
    /\ pc = "try_pytubefix"
    /\ PYTUBEFIX_AVAILABLE
    /\ invoked' = Append(invoked, Invocation(Providers[1], video_id, lang))
    /\ pc' = "blocked"
    /\ UNCHANGED <<inputs, attempt, returned, sleeps, response, aside>>

\* the same inside try_transcript_api
HangTranscriptApi ==
    /\ pc = "try_transcript_api"
    /\ has_list_transcripts \/ has_get_transcript
    /\ invoked' = Append(invoked, Invocation(Providers[2], video_id, lang))
    /\ pc' = "blocked"
    /\ UNCHANGED <<inputs, attempt, returned, sleeps, response, aside>>

NextHang ==
    \/ Validate
    \/ BeginAttempt
    \/ CallPytubefix
    \/ CallTranscriptApi
    \/ AllFailed
    \/ HangPytubefix
    \/ HangTranscriptApi

\* the request's thread runs whenever it can take a step
SpecHang == Init /\ [][NextHang]_vars /\ WF_vars(NextHang)

\* ------------------------------------------- libraries with fixed answers

\* pytubefix finds an "en" caption with text
PyWorks ==
    [ctor |-> "ok", title |-> "ok", captions |-> <<"en">>, generate |-> "ok",
     srt |-> <<"1", "00:00:00,000 --> 00:00:02,000", " hello world ", "">>]

\* YouTube(url) raises
PyBreaks ==
    [ctor |-> "Exception", title |-> "ok", captions |-> <<>>, generate |-> "ok",
     srt |-> <<>>]

\* the video has no captions
PyNoCaptions ==
    [ctor |-> "ok", title |-> "ok", captions |-> <<>>, generate |-> "ok",
     srt |-> <<>>]

\* list_transcripts finds a manual "en" transcript with text
ApiWorks ==
    [list |-> "ok", tracks |-> [manual |-> <<"en">>, generated |-> <<>>],
     fetch |-> "ok", get |-> "Exception", data |-> <<"hello", "world">>]

\* list_transcripts and get_transcript raise an exception of no known class
ApiBreaks ==
    [list |-> "Exception", tracks |-> NoTracks, fetch |-> "ok",
     get |-> "Exception", data |-> <<>>]

\* list_transcripts raises TranscriptsDisabled
ApiDisabled ==
    [list |-> "TranscriptsDisabled", tracks |-> NoTracks, fetch |-> "ok",
     get |-> "Exception", data |-> <<>>]

\* what the two libraries answer in one round
RoundAnswers ==
    [py : {PyWorks, PyBreaks, PyNoCaptions} \cap PyEnvs,
     api : {ApiWorks, ApiBreaks, ApiDisabled} \cap ApiEnvs]

\* the libraries answer by the number of the call alone: every video gets the
\* same script of max_retries rounds
ScriptedWorlds ==
    {[id \in AcceptedIds |-> script] : script \in [1..max_retries -> RoundAnswers]}

\* deterministic libraries: the answer depends on the video alone
DeterministicWorlds ==
    {[id \in AcceptedIds |-> [n \in 1..max_retries |-> answers[id]]] :
        answers \in [AcceptedIds ->
                       {[py |-> PyBreaks, api |-> ApiBreaks],
                        [py |-> PyWorks, api |-> ApiBreaks],
                        [py |-> PyNoCaptions, api |-> ApiWorks],
                        [py |-> PyNoCaptions, api |-> ApiDisabled]} \cap RoundAnswers]}

\* one request against libraries whose answers are scripted
InitScripted ==
    /\ video_id \in AcceptedIds
    /\ lang \in Langs
    /\ PYTUBEFIX_AVAILABLE = TRUE
    /\ has_list_transcripts = TRUE
    /\ has_get_transcript = TRUE
    /\ pc = "validate"
    /\ attempt = 0
    /\ invoked = <<>>
    /\ returned = [p \in {Providers[1], Providers[2]} |-> None]
    /\ sleeps = <<>>
    /\ response = None
    /\ probe = None
    /\ world \in ScriptedWorlds
    /\ other = None

SpecScripted == InitScripted /\ [][Next]_vars

\* ------------------------------------------------------- a second request

\* the locals of a call of fetch_transcript whose loop variable is the one
\* the first request left behind
NewRequestAttemptLeftBehind(id, language) ==
    [video_id |-> id, lang |-> language, pc |-> "validate", attempt |-> attempt,
     invoked |-> <<>>, returned |-> [p \in {Providers[1], Providers[2]} |-> None],
     sleeps |-> <<>>, response |-> None, after |-> (pc = "done")]

\* the locals of a fresh call fetch_transcript(id, language); after: the
\* first request had returned when this one was made
NewRequest(id, language) ==
    [video_id |-> id, lang |-> language, pc |-> "validate", attempt |-> 0,
     invoked |-> <<>>, returned |-> [p \in {Providers[1], Providers[2]} |-> None],
     sleeps |-> <<>>, response |-> None, after |-> (pc = "done")]

\* a route is called again, at any time: before, while or after the first
\* request runs
OtherArrives ==
    /\ other = None
    /\ \E id \in VideoIds, language \in {lang, "en"} :
          other' = NewRequest(id, language)
    /\ UNCHANGED <<inputs, pc, attempt, invoked, returned, sleeps, response,
                   probe, world>>

\* the steps of fetch_transcript, taken by the second request
OtherValidate ==
    /\ other # None
    /\ other.pc = "validate"
    /\ other' = IF InvalidVideoId(other.video_id)
                THEN [other EXCEPT !.response = InvalidResponse, !.pc = "done"]
                ELSE [other EXCEPT !.pc = "attempt"]
    /\ UNCHANGED <<inputs, pc, attempt, invoked, returned, sleeps, response,
                   probe, world>>

OtherBeginAttempt ==
    /\ other # None
    /\ other.pc = "attempt"
    /\ MoreAttempts(other.attempt)
    /\ \E ms \in JitterSamples :
          other' = [other EXCEPT
                       !.sleeps = @ \o Backoff(other.attempt) \o RandomDelay(ms),
                       !.pc = "try_pytubefix"]
    /\ UNCHANGED <<inputs, pc, attempt, invoked, returned, sleeps, response,
                   probe, world>>

OtherCallPytubefix ==
    /\ other # None
    /\ other.pc = "try_pytubefix"
    /\ \E env \in PyAnswers(other.video_id, other.attempt) :
          LET result == try_pytubefix(other.video_id, other.lang,
                                      PYTUBEFIX_AVAILABLE, env)
              called == [other EXCEPT
                           !.invoked = Append(@, Invocation(Providers[1],
                                                  other.video_id, other.lang)),
                           !.returned[Providers[1]] = Some(result)]
          IN
          other' = IF Succeeded(result)
                   THEN [called EXCEPT !.response = TranscriptResponse(result),
                                       !.pc = "done"]
                   ELSE [called EXCEPT !.pc = "try_transcript_api"]
    /\ UNCHANGED <<inputs, pc, attempt, invoked, returned, sleeps, response,
                   probe, world>>

OtherCallTranscriptApi ==
    /\ other # None
    /\ other.pc = "try_transcript_api"
    /\ \E env \in ApiAnswers(other.video_id, other.attempt) :
          LET result == try_transcript_api(other.video_id, other.lang,
                                           has_list_transcripts,
                                           has_get_transcript, env)
              called == [other EXCEPT
                           !.invoked = Append(@, Invocation(Providers[2],
                                                  other.video_id, other.lang)),
                           !.returned[Providers[2]] = Some(result)]
          IN
          other' = IF Succeeded(result)
                   THEN [called EXCEPT !.response = TranscriptResponse(result),
                                       !.pc = "done"]
                   ELSE [called EXCEPT !.pc = "attempt", !.attempt = @ + 1]
    /\ UNCHANGED <<inputs, pc, attempt, invoked, returned, sleeps, response,
                   probe, world>>

OtherAllFailed ==
    /\ other # None
    /\ other.pc = "attempt"
    /\ ~MoreAttempts(other.attempt)
    /\ other' = [other EXCEPT !.response = AllFailedResponse(other.video_id),
                              !.pc = "done"]
    /\ UNCHANGED <<inputs, pc, attempt, invoked, returned, sleeps, response,
                   probe, world>>

\* two requests against deterministic libraries
InitTwo ==
    /\ video_id \in AcceptedIds
    /\ lang \in Langs
    /\ PYTUBEFIX_AVAILABLE = TRUE
    /\ has_list_transcripts = TRUE
    /\ has_get_transcript = TRUE
    /\ pc = "validate"
    /\ attempt = 0
    /\ invoked = <<>>
    /\ returned = [p \in {Providers[1], Providers[2]} |-> None]
    /\ sleeps = <<>>
    /\ response = None
    /\ probe = None
    /\ world \in DeterministicWorlds
    /\ other = None

\* each request runs on a thread of its own: their steps interleave freely
NextTwo ==
    \/ Validate
    \/ BeginAttempt
    \/ CallPytubefix
    \/ CallTranscriptApi
    \/ AllFailed
    \/ OtherArrives
    \/ OtherValidate
    \/ OtherBeginAttempt
    \/ OtherCallPytubefix
    \/ OtherCallTranscriptApi
    \/ OtherAllFailed

SpecTwo == InitTwo /\ [][NextTwo]_vars

\* what fetch_transcript(id, language) does from round n on when nothing runs
\* beside it: its response and the provider calls it makes
RECURSIVE AloneFrom(_, _, _)
AloneFrom(id, language, n) ==
    LET py == try_pytubefix(id, language, PYTUBEFIX_AVAILABLE, world[id][n].py)
        api == try_transcript_api(id, language, has_list_transcripts,
                                  has_get_transcript, world[id][n].api)
        calls == <<Invocation(Providers[1], id, language),
                   Invocation(Providers[2], id, language)>>
    IN
    IF Succeeded(py)
    THEN [response |-> TranscriptResponse(py), invoked |-> <<calls[1]>>]
    ELSE IF Succeeded(api)
    THEN [response |-> TranscriptResponse(api), invoked |-> calls]
    ELSE IF n = max_retries
    THEN [response |-> AllFailedResponse(id), invoked |-> calls]
    ELSE LET rest == AloneFrom(id, language, n + 1) IN
         [response |-> rest.response, invoked |-> calls \o rest.invoked]

Alone(id, language) ==
    IF InvalidVideoId(id) THEN [response |-> InvalidResponse, invoked |-> <<>>]
    ELSE AloneFrom(id, language, 1)

\* -------------------------------------------- one provider call on its own

\* the caption try_pytubefix chooses, if it gets that far
PytubefixSelected(language, available, env) ==
    IF available /\ env.ctor = "ok" /\ env.title = "ok" /\ Len(env.captions) > 0
    THEN Some(SelectCaption(env.captions, language))
    ELSE None

\* the transcript Method 1a chooses, if it gets that far
Method1aSelected(language, has_list, env) ==
    IF has_list /\ env.list = "ok" THEN SelectTranscript(env.tracks, language)
    ELSE None

\* the library calls one try_transcript_api call makes, in order
ApiLibraryCalls(language, has_list, has_get, env) ==
    LET first == IF has_list THEN Method1a(language, env) ELSE [returns |-> FALSE] IN
    (IF has_list THEN <<"list_transcripts">> ELSE <<>>)
    \o (IF Method1aSelected(language, has_list, env) # None THEN <<"fetch">> ELSE <<>>)
    \o (IF ~first.returns /\ has_get THEN <<"get_transcript">> ELSE <<>>)

\* api.get_transcript(video_id, languages=[lang, "en"]) answers with the
\* transcript of one of the languages it was asked for
GetTranscriptLanguages(language) == {language, "en"}

InitProviders ==
    /\ video_id \in AcceptedIds
    /\ lang \in Langs
    /\ PYTUBEFIX_AVAILABLE \in BOOLEAN
    /\ has_list_transcripts \in BOOLEAN
    /\ has_get_transcript \in BOOLEAN
    /\ pc = "provider"
    /\ attempt = 0
    /\ invoked = <<>>
    /\ returned = [p \in {Providers[1], Providers[2]} |-> None]
    /\ sleeps = <<>>
    /\ response = None
    /\ probe = None
    /\ world = None
    /\ other = None

\* one call try_pytubefix(video_id, lang)
ProbePytubefix ==
    /\ pc = "provider"
    /\ \E env \in PyEnvs :
          LET result == try_pytubefix(video_id, lang, PYTUBEFIX_AVAILABLE, env) IN
          probe' = [provider |-> Providers[1],
                    env |-> env,
                    selected |-> PytubefixSelected(lang, PYTUBEFIX_AVAILABLE, env),
                    result |-> result,
                    served |-> IF Succeeded(result)
                               THEN Some(SelectCaption(env.captions, lang))
                               ELSE None]
    /\ pc' = "returned"
    /\ UNCHANGED <<inputs, attempt, invoked, returned, sleeps, response, world, other>>

\* one call try_transcript_api(video_id, lang)
ProbeTranscriptApi ==
    /\ pc = "provider"
    /\ \E env \in ApiEnvs, got \in GetTranscriptLanguages(lang) :
          LET result == try_transcript_api(video_id, lang, has_list_transcripts,
                                           has_get_transcript, env)
              calls == ApiLibraryCalls(lang, has_list_transcripts,
                                       has_get_transcript, env)
              selected == Method1aSelected(lang, has_list_transcripts, env)
          IN
          probe' = [provider |-> Providers[2],
                    env |-> env,
                    selected |-> selected,
                    calls |-> calls,
                    result |-> result,
                    served |-> IF ~Succeeded(result) THEN None
                               ELSE IF calls[Len(calls)] = "get_transcript"
                               THEN Some(got)
                               ELSE Some(selected.language_code)]
    /\ pc' = "returned"
    /\ UNCHANGED <<inputs, attempt, invoked, returned, sleeps, response, world, other>>

NextProviders ==
    \/ ProbePytubefix
    \/ ProbeTranscriptApi

SpecProviders == InitProviders /\ [][NextProviders]_vars

\* ------------------------------------------------------ terms of the claims

PytubefixName == Providers[1]
TranscriptApiName == Providers[2]

\* the latest value provider p returned (p has been called)
Latest(p) == returned[p][1]

\* a provider call's return value is a transcript
ReturnedTranscript(r) == r # None /\ "success" \in DOMAIN r /\ r.success = TRUE

\* the error kinds of the providers that are not Transient: Disabled,
\* NotFound, Unavailable (by either provider), NotFound, EmptyResult
PermanentErrors ==
    {"transcripts_disabled", "no_transcript", "video_unavailable",
     "no_captions", "empty_captions"}

\* a provider call's return value is a classified, non-Transient failure
FailedPermanently(r) ==
    r # None /\ "error" \in DOMAIN r /\ r.error \in PermanentErrors

\* this step invokes provider p
InvokedNow(p) ==
    /\ Len(invoked') = Len(invoked) + 1
    /\ invoked'[Len(invoked')].provider = p

\* the number of calls of provider p so far
Invocations(p) == Cardinality({i \in 1..Len(invoked) : invoked[i].provider = p})

Returned == response # None

Failed(kind) == Returned /\ response.success = FALSE /\ response.error_type = Some(kind)

\* ^[A-Za-z0-9_-]{11}$
IdChars ==
    {"A", "B", "C", "D", "E", "F", "G", "H", "I", "J", "K", "L", "M",
     "N", "O", "P", "Q", "R", "S", "T", "U", "V", "W", "X", "Y", "Z",
     "a", "b", "c", "d", "e", "f", "g", "h", "i", "j", "k", "l", "m",
     "n", "o", "p", "q", "r", "s", "t", "u", "v", "w", "x", "y", "z",
     "_", "-"} \cup Digits

MatchesIdPattern(id) ==
    Len(id) = 11 /\ \A i \in 1..Len(id) : SubSeq(id, i, i) \in IdChars

\* ------------------------------------------------------------------ claims

\* C1: when the first provider of the chain fails with a permanent error and
\* the second provider returns a transcript, the second provider was invoked
\* and the response is success=true with exactly the second provider's text,
\* language and source.
C1_SecondProviderAnswers ==
    (/\ returned[PytubefixName] # None
     /\ returned[TranscriptApiName] # None
     /\ FailedPermanently(Latest(PytubefixName))
     /\ ReturnedTranscript(Latest(TranscriptApiName)))
    => /\ invoked[Len(invoked)].provider = TranscriptApiName
       /\ Returned
       /\ response.success = TRUE
       /\ response.text = Some(Latest(TranscriptApiName).text)
       /\ response.language = Some(Latest(TranscriptApiName).language)
       /\ response.source = Some(Latest(TranscriptApiName).source)
       /\ response.error = None

\* C1 witness: pytubefix answered NotFound (no captions), youtube-transcript-api
\* returned the manual "en" track "hello world", and that is the response.
C1_Witness ==
    /\ returned[PytubefixName] # None
    /\ Latest(PytubefixName) = [error |-> "no_captions", message |-> "No captions found"]
    /\ Returned
    /\ response.success = TRUE
    /\ response.text = Some("hello world")
    /\ response.language = Some("en")
    /\ response.is_auto_generated = Some(FALSE)
    /\ response.source = Some(TranscriptApiName)

\* C2: providers are invoked one at a time, and once a provider call has
\* returned a transcript no provider is invoked again, no delay is taken, and
\* the response carries the text and source of that call.
C2_FirstSuccessReturns ==
    /\ [][Len(invoked') <= Len(invoked) + 1]_vars
    /\ [][(\E p \in DOMAIN returned :
             returned[p] # None /\ ReturnedTranscript(Latest(p)))
          => /\ invoked' = invoked
             /\ sleeps' = sleeps
             /\ response' = response]_vars
    /\ [](\A p \in DOMAIN returned :
            (returned[p] # None /\ ReturnedTranscript(Latest(p)))
            => /\ Returned
               /\ response.success = TRUE
               /\ invoked[Len(invoked)].provider = p
               /\ response.text = Some(Latest(p).text)
               /\ response.source = Some(Latest(p).source))

\* C2 witness: pytubefix succeeded in the second round, after both providers
\* failed in the first, and the request returned its result.
C2_Witness ==
    /\ Len(invoked) = 3
    /\ ReturnedTranscript(Latest(PytubefixName))
    /\ Returned
    /\ response.source = Some(PytubefixName)
    /\ pc = "done"

C4_InvalidIdShortCircuits ==
    /\ (Len(video_id) # 11 /\ pc # "validate")
       => /\ Failed("invalid_video_id")
          /\ pc = "done"
          /\ invoked = <<>>
          /\ sleeps = <<>>
    /\ Failed("invalid_video_id")
       => /\ Len(video_id) # 11
          /\ invoked = <<>>
          /\ sleeps = <<>>
          /\ response.error # None

\* C4 witness: a 12-character id was rejected.
C4_Witness ==
    /\ video_id = "dQw4w9WgXcQQ"
    /\ pc = "done"
    /\ Failed("invalid_video_id")

\* C5 as claimed: every provider invocation receives an id that matches
\* ^[A-Za-z0-9_-]{11}$.
C5_InvokedIdMatchesPattern ==
    \A i \in 1..Len(invoked) : MatchesIdPattern(invoked[i].video_id)

\* C5 as the code has it: every provider invocation receives the request's
\* id, of exactly 11 characters; an id of another length is answered
\* invalid_video_id and reaches no provider. The characters are not checked.
C5_InvokedIdHasLength11 ==
    /\ \A i \in 1..Len(invoked) :
          /\ invoked[i].video_id = video_id
          /\ Len(invoked[i].video_id) = 11
    /\ (Len(video_id) # 11 /\ pc = "done")
       => Failed("invalid_video_id") /\ invoked = <<>>
    /\ (Len(video_id) = 11 /\ pc = "done") => invoked # <<>>

\* C5 witness: the 11-character id with a "!" reached both providers.
C5_Witness ==
    /\ video_id = "dQw4w9WgXc!"
    /\ Len(invoked) = 2
    /\ invoked[1].video_id = "dQw4w9WgXc!"
    /\ invoked[2].video_id = "dQw4w9WgXc!"

\* C6: every response populates exactly one side: a success has text,
\* language and source and neither error nor error_type; a failure has error
\* and error_type and none of text, language, source, is_auto_generated.
C6_ExactlyOneSide ==
    Returned =>
        IF response.success
        THEN /\ response.text # None
             /\ response.language # None
             /\ response.source # None
             /\ response.error = None
             /\ response.error_type = None
        ELSE /\ response.error # None
             /\ response.error_type # None
             /\ response.text = None
             /\ response.language = None
             /\ response.source = None
             /\ response.is_auto_generated = None

\* C6 witness: a success through get_transcript, for a language no track
\* carries, after pytubefix failed.
C6_Witness ==
    /\ Returned
    /\ response.success = TRUE
    /\ has_list_transcripts = FALSE
    /\ response.language = Some("de")
    /\ response.text = Some("hello world")
    /\ Len(invoked) = 2

\* C7: a response with success=true never carries empty text.
C7_SuccessHasText ==
    (Returned /\ response.success = TRUE)
    => response.text # None /\ response.text # Some("")

\* C8 as claimed: the all_methods_failed response carries the attempt log,
\* one entry per provider of the chain.
C8_AllFailedCarriesAttemptLog ==
    Failed("all_methods_failed")
    => /\ "attempts" \in DOMAIN response
       /\ Len(response.attempts) = Len(Providers)

\* C8 as the code has it: when every provider call of every round has failed
\* the response is success=false, error_type all_methods_failed, with the
\* fixed message naming the video id; its fields are those of
\* TranscriptResponse, none of them an attempt log.
C8_AllFailedWithoutAttemptLog ==
    /\ (/\ pc = "done"
        /\ Len(invoked) = max_retries * Len(Providers)
        /\ \A p \in DOMAIN returned : ~ReturnedTranscript(Latest(p)))
       => /\ Failed("all_methods_failed")
          /\ response = AllFailedResponse(video_id)
    /\ Failed("all_methods_failed")
       => /\ response.error # None
          /\ response.error # Some("")
          /\ DOMAIN response = {"success", "text", "language", "source",
                                "is_auto_generated", "error", "error_type"}
          /\ \A f \in DOMAIN response \ {"success", "error", "error_type"} :
                response[f] = None

\* C8 witness: pytubefix failed with an unclassified (transient) error and
\* youtube-transcript-api with Unavailable in the last round, and the request
\* ended all_methods_failed.
C8_Witness ==
    /\ Failed("all_methods_failed")
    /\ Latest(PytubefixName) = [error |-> "pytubefix_error", message |-> ExcText]
    /\ Latest(TranscriptApiName) = [error |-> "video_unavailable", message |-> ExcText]

\* C9: a response with success=false is invalid_video_id or
\* all_methods_failed; it is never a provider's own error, and
\* all_methods_failed is returned only when every provider has been invoked
\* in every one of the max_retries rounds and has failed.
C9_FailureOnlyByRejectionOrExhaustion ==
    (Returned /\ response.success = FALSE)
    => /\ Failed("invalid_video_id") \/ Failed("all_methods_failed")
       /\ Failed("invalid_video_id") => Len(video_id) # 11 /\ invoked = <<>>
       /\ Failed("all_methods_failed")
          => /\ attempt = max_retries
             /\ \A p \in DOMAIN returned :
                   /\ Invocations(p) = max_retries
                   /\ ~ReturnedTranscript(Latest(p))
                   /\ "error" \in DOMAIN Latest(p)
                      => /\ response.error_type # Some(Latest(p).error)
                         /\ response.error # Some(Latest(p).message)

\* C9 witness: the request ended all_methods_failed after a last round in
\* which pytubefix answered Unavailable and youtube-transcript-api None.
C9_Witness ==
    /\ Failed("all_methods_failed")
    /\ Latest(PytubefixName) = [error |-> "video_unavailable", message |-> ExcText]
    /\ Latest(TranscriptApiName) = None

SleepsOf(kind) == {i \in 1..Len(sleeps) : sleeps[i].sleep = kind}

\* the time slept before attempt n (n >= 2): its backoff and its random delay
DelayBefore(n) == sleeps[2 * n - 2].ms + sleeps[2 * n - 1].ms

\* the longest delay the parameters max_retries and max_ms allow
MaxDelayMs == (BackoffBase ^ (max_retries - 1)) * MsPerSecond + max_ms

C19_TerminatesWithinBudget ==
    /\ <>(pc = "done" /\ Returned)
    /\ [](\A p \in DOMAIN returned : Invocations(p) <= max_retries)
    /\ [](Cardinality(SleepsOf("backoff")) <= max_retries - 1)
    /\ []((/\ pc = "done"
           /\ invoked # <<>>
           /\ \A p \in DOMAIN returned : ~ReturnedTranscript(Latest(p)))
          => /\ Failed("all_methods_failed")
             /\ attempt = max_retries
             /\ \A p \in DOMAIN returned : Invocations(p) = max_retries
             /\ Cardinality(SleepsOf("random_delay")) = max_retries
             /\ Cardinality(SleepsOf("backoff")) = max_retries - 1)

\* C19 witness: a request all of whose calls failed has returned.
C19_Witness ==
    /\ pc = "done"
    /\ Failed("all_methods_failed")
    /\ Len(invoked) = 6
    /\ Len(sleeps) = 5

\* the probe looked at a call of try_pytubefix that got to yt.captions
ProbedCaptions ==
    /\ probe # None
    /\ probe.provider = PytubefixName
    /\ PYTUBEFIX_AVAILABLE
    /\ probe.env.ctor = "ok"
    /\ probe.env.title = "ok"

\* the probe looked at a call of try_transcript_api that got its transcript list
ProbedTranscriptList ==
    /\ probe # None
    /\ probe.provider = TranscriptApiName
    /\ has_list_transcripts
    /\ probe.env.list = "ok"

\* C16: whatever language is asked for, a provider that is shown a non-empty
\* set of tracks selects one of them (asked "de", shown only a generated "fr":
\* "fr" is selected); it selects nothing only when it is shown no track.
C16_SelectionNeverFailsOnMismatch ==
    /\ ProbedCaptions
       => IF Len(probe.env.captions) > 0
          THEN /\ probe.selected # None
               /\ InLangs(probe.selected[1], probe.env.captions)
               /\ Get(probe.result, "error") # Some("no_captions")
          ELSE /\ probe.selected = None
               /\ Get(probe.result, "error") = Some("no_captions")
    /\ ProbedTranscriptList
       => IF probe.env.tracks # NoTracks
          THEN /\ probe.selected # None
               /\ \E i \in 1..Len(Transcripts(probe.env.tracks)) :
                     Transcripts(probe.env.tracks)[i] = probe.selected
               /\ probe.env.fetch = "ok"
                  => /\ ReturnedTranscript(probe.result)
                     /\ probe.result.language = probe.selected.language_code
          ELSE probe.selected = None

\* C16 witness: "de" was asked for, the list holds a generated "fr"
\* transcript only, and its text is returned.
C16_Witness ==
    /\ ProbedTranscriptList
    /\ lang = "de"
    /\ probe.env.tracks = [manual |-> <<>>, generated |-> <<"fr">>]
    /\ probe.selected = [language_code |-> "fr", is_generated |-> TRUE]
    /\ ReturnedTranscript(probe.result)
    /\ probe.result.language = "fr"

\* C17 as stated: the selected track is (a) the manual track in the requested
\* language, else (b) the generated track in the requested language, else
\* (c) a manual track of any language, else (d) any track.
C17_ManualBeforeGenerated ==
    (ProbedTranscriptList /\ probe.selected # None)
    => LET tracks == probe.env.tracks IN
       IF InLangs(lang, tracks.manual)
       THEN probe.selected = [language_code |-> lang, is_generated |-> FALSE]
       ELSE IF InLangs(lang, tracks.generated)
       THEN probe.selected = [language_code |-> lang, is_generated |-> TRUE]
       ELSE IF Len(tracks.manual) > 0
       THEN ~probe.selected.is_generated
       ELSE TRUE

\* C17 amended: try_transcript_api selects the manual then the generated
\* track in the requested language, else the manual then the generated "en"
\* track, else the first track of the list (manual ones come first);
\* try_pytubefix selects by code alone: requested, else "en", else the first.
C17_RequestedThenEnglishThenFirst ==
    /\ (ProbedTranscriptList /\ probe.env.tracks # NoTracks)
       => LET tracks == probe.env.tracks IN
          probe.selected =
             IF InLangs(lang, tracks.manual)
             THEN [language_code |-> lang, is_generated |-> FALSE]
             ELSE IF InLangs(lang, tracks.generated)
             THEN [language_code |-> lang, is_generated |-> TRUE]
             ELSE IF InLangs("en", tracks.manual)
             THEN [language_code |-> "en", is_generated |-> FALSE]
             ELSE IF InLangs("en", tracks.generated)
             THEN [language_code |-> "en", is_generated |-> TRUE]
             ELSE IF Len(tracks.manual) > 0
             THEN [language_code |-> tracks.manual[1], is_generated |-> FALSE]
             ELSE [language_code |-> tracks.generated[1], is_generated |-> TRUE]
    /\ (ProbedCaptions /\ Len(probe.env.captions) > 0)
       => probe.selected =
             IF InLangs(lang, probe.env.captions) THEN Some(lang)
             ELSE IF InLangs("en", probe.env.captions) THEN Some("en")
             ELSE Some(probe.env.captions[1])

\* C17 witness: "de" was asked for, the list holds a manual "fr" and a
\* generated "en" transcript, and the generated "en" one is selected.
C17_Witness ==
    /\ ProbedTranscriptList
    /\ lang = "de"
    /\ probe.env.tracks = [manual |-> <<"fr">>, generated |-> <<"en">>]
    /\ probe.selected = [language_code |-> "en", is_generated |-> TRUE]

\* the listing path of the probed call ended in a classified exception
ListingPathClassified ==
    /\ probe # None
    /\ probe.provider = TranscriptApiName
    /\ has_list_transcripts
    /\ \/ probe.env.list \in Classified
       \/ probe.env.list = "ok" /\ probe.selected # None
          /\ probe.env.fetch \in Classified

\* C18: when the listing path of a try_transcript_api call ends in a
\* classified exception, the call returns that error and does not call
\* get_transcript; get_transcript is called only after an unclassified
\* exception or when the listing path selected no track.
C18_ClassifiedErrorSkipsFallback ==
    (probe # None /\ probe.provider = TranscriptApiName)
    => /\ ListingPathClassified
          => /\ \A i \in 1..Len(probe.calls) : probe.calls[i] # "get_transcript"
             /\ Get(probe.result, "error") \in
                   {Some("transcripts_disabled"), Some("no_transcript"),
                    Some("video_unavailable")}
       /\ (\E i \in 1..Len(probe.calls) : probe.calls[i] = "get_transcript")
          => /\ has_get_transcript
             /\ probe.calls[Len(probe.calls)] = "get_transcript"
             /\ \/ probe.selected = None
                \/ probe.env.list = "Exception"
                \/ probe.env.fetch = "Exception"

\* C18 witness: list_transcripts raised TranscriptsDisabled, get_transcript
\* is there, and the call returned the error after list_transcripts alone.
C18_Witness ==
    /\ probe # None
    /\ probe.provider = TranscriptApiName
    /\ has_get_transcript
    /\ probe.env.list = "TranscriptsDisabled"
    /\ probe.calls = <<"list_transcripts">>
    /\ probe.result = [error |-> "transcripts_disabled", message |-> ExcText]

\* C20: the language of a successful result is the language code of the
\* track whose text the result carries.
C20_LanguageIsServedTrack ==
    (probe # None /\ ReturnedTranscript(probe.result))
    => probe.served = Some(probe.result.language)

\* C13 as stated: no request is stalled for ever, also when a library call
\* hangs: a request that has not returned its response has a step to take.
C13_NoRequestStalls == Returned \/ ENABLED NextHang

\* a provider call's return value is a failure of no classified kind: an
\* exception of no known class (pytubefix_error, or None from
\* try_transcript_api)
FailedTransiently(r) == ~ReturnedTranscript(r) /\ ~FailedPermanently(r)

\* what the n-th call of provider p returns under the script
ScriptedResult(p, n) ==
    IF p = PytubefixName
    THEN try_pytubefix(video_id, lang, PYTUBEFIX_AVAILABLE, world[video_id][n].py)
    ELSE try_transcript_api(video_id, lang, has_list_transcripts,
                            has_get_transcript, world[video_id][n].api)

\* provider p has made max_retries calls: all but the last failed with a
\* Transient error and the last returned a transcript
SucceededOnLastAttempt(p) ==
    /\ Invocations(p) = max_retries
    /\ returned[p] # None
    /\ \A n \in 1..(max_retries - 1) : FailedTransiently(ScriptedResult(p, n))
    /\ Latest(p) = ScriptedResult(p, max_retries)
    /\ ReturnedTranscript(Latest(p))

\* C11: a provider that fails with a Transient error on its first
\* max_retries - 1 calls and returns a transcript on its next call makes
\* fetch_transcript return success = true with that provider's transcript.
C11_LastAttemptSuccessIsReturned ==
    \A p \in DOMAIN returned :
        SucceededOnLastAttempt(p)
        => /\ pc = "done"
           /\ response = TranscriptResponse(Latest(p))
           /\ response.success = TRUE
           /\ response.source = Some(p)
           /\ response.text = Some(Latest(p).text)

\* C11 witness: pytubefix raised in rounds 1 and 2 and found captions in
\* round 3, after youtube-transcript-api had failed twice.
C11_Witness ==
    /\ SucceededOnLastAttempt(PytubefixName)
    /\ Invocations(TranscriptApiName) = 2
    /\ response # None
    /\ response.source = Some(PytubefixName)

\* s is an initial part of t
IsPrefix(s, t) == Len(s) <= Len(t) /\ SubSeq(t, 1, Len(s)) = s

\* C14: against deterministic providers two calls of fetch_transcript with
\* the same (video_id, lang) return identical responses, and make the same
\* provider calls.
C14_SameInputsSameResponse ==
    (/\ other # None
     /\ other.video_id = video_id
     /\ other.lang = lang
     /\ pc = "done"
     /\ other.pc = "done")
    => /\ other.response = response
       /\ other.invoked = invoked

\* C14 witness: the second call was made after the first had returned, with
\* the same arguments, and both returned the transcript of
\* youtube-transcript-api.
C14_Witness ==
    /\ other # None
    /\ other.after
    /\ other.video_id = video_id
    /\ other.lang = lang
    /\ pc = "done"
    /\ other.pc = "done"
    /\ response.source = Some(TranscriptApiName)
    /\ other.response = response

\* C15: however the steps of two requests interleave, each makes the provider
\* calls and returns the response it would have made and returned alone.
C15_RequestsDoNotInterfere ==
    /\ IsPrefix(invoked, Alone(video_id, lang).invoked)
    /\ pc = "done"
       => /\ response = Alone(video_id, lang).response
          /\ invoked = Alone(video_id, lang).invoked
    /\ other # None
       => /\ IsPrefix(other.invoked, Alone(other.video_id, other.lang).invoked)
          /\ other.pc = "done"
             => /\ other.response = Alone(other.video_id, other.lang).response
                /\ other.invoked = Alone(other.video_id, other.lang).invoked

\* C15 witness: two requests for different videos are both in their second
\* round, the second one having been made while the first one ran.
C15_Witness ==
    /\ other # None
    /\ ~other.after
    /\ other.video_id # video_id
    /\ pc = "try_transcript_api"
    /\ other.pc = "try_pytubefix"
    /\ Len(invoked) = 3
    /\ Len(other.invoked) = 2

====
